---- MODULE Spec2Model ----
(***************************************************************************)
(* State-machine model of the kernel/GP PDE solver classes                 *)
(*   src/src/PDEs.py          Nonlinear_elliptic2d, Burgers, Eikonal       *)
(*   src/src_new/PDEs_new.py  Burgers (3-block layout, "Burgers_new" here) *)
(*   src/src_new/Gram_matrice_new.py  Gram_matrix_assembly,                *)
(*                                    construct_Theta_test                 *)
(*                                                                         *)
(* Floating-point numbers are modelled as fractions <<n, d>>: d > 0 is the *)
(* rational n/d (reduced), <<1, 0>> is +inf, <<-1, 0>> is -inf and         *)
(* <<0, 0>> is NaN.  Matrices are sequences of rows, indexed from 1; the   *)
(* Python index i (0-based) is the model index i + 1.                      *)
(***************************************************************************)
EXTENDS Integers, Sequences, FiniteSets, TLC

\* ------------------------------------------------------------------ bounds
\* largest number of interior collocation points (N_domain ranges over 1..MaxN)
MaxN == 1
\* largest number of boundary collocation points (N_boundary ranges over 0..MaxNb)
MaxNb == 1
\* largest max_iter passed to GN_method
MaxIter == 2
\* largest number of method calls made on one problem object in one run
MaxCalls == 5

\* ------------------------------------------------------------ input domains
\* the four problem classes of the repository
Classes == {"Nonlinear_elliptic2d", "Burgers", "Eikonal", "Burgers_new"}
\* kernel tags a caller passes to Gram_matrix: a supported one and one that is not
Kernels == {"Gaussian", "Matern"}

\* kernel tags handed to the assembly functions when they are called directly
KernelTags == {"Gaussian", "anisotropic_Gaussian", "Matern"}
\* PDE tags a caller can pass to the assembly functions
Eqns == {"Nonlinear_elliptic", "Burgers", "Eikonal", "Poisson"}
\* nugget_type values a caller can pass: the three policies and one other value
NuggetTypes == {"adaptive", "identity", "none", "fixed"}
\* nugget values, in units of the positive nugget the caller chose (0 = no nugget)
Nuggets == {0, 1}
\* initial_sol values: the random draw, or a caller-supplied vector
InitialSols == {"rdm", "supplied"}
\* classes of a floating-point loss value
LossClasses == {"finite", "nan", "posinf"}
\* collocation / query point identifiers
Pts == 1 .. (MaxN + 1)

\* --------------------------------------------------------------- fractions
RECURSIVE Gcd(_, _)
Gcd(a, b) == IF b = 0 THEN a ELSE Gcd(b, a % b)

Abs(a) == IF a < 0 THEN -a ELSE a

Sign(a) == IF a > 0 THEN 1 ELSE IF a < 0 THEN -1 ELSE 0

\* n / d as IEEE division of two finite numbers does it: x/0 is +-inf, 0/0 is NaN
FDiv(n, d) ==
    IF d = 0 THEN <<Sign(n), 0>>
    ELSE LET g == Gcd(Abs(n), Abs(d))
             s == IF d < 0 THEN -1 ELSE 1
         IN  <<(s * n) \div g, (s * d) \div g>>

FInt(a) == <<a, 1>>

IsNaN(x) == x = <<0, 0>>

IsFinite(x) == x[2] # 0

\* product of two floats (0 * inf = NaN)
FMul(x, y) ==
    IF IsFinite(x) /\ IsFinite(y)
    THEN LET g1 == Gcd(Abs(x[1]), y[2])
             g2 == Gcd(Abs(y[1]), x[2])
         IN  FDiv((x[1] \div g1) * (y[1] \div g2), (x[2] \div g2) * (y[2] \div g1))
    ELSE <<Sign(x[1]) * Sign(y[1]), 0>>

\* sum of two floats (inf - inf = NaN)
FAdd(x, y) ==
    IF IsFinite(x) /\ IsFinite(y)
    THEN LET g == Gcd(x[2], y[2])
         IN  FDiv(x[1] * (y[2] \div g) + y[1] * (x[2] \div g), (x[2] \div g) * y[2])
    ELSE IF IsNaN(x) \/ IsNaN(y) THEN <<0, 0>>
    ELSE IF ~IsFinite(x) /\ ~IsFinite(y) /\ x # y THEN <<0, 0>>
    ELSE IF ~IsFinite(x) THEN x ELSE y

FNeg(x) == <<-x[1], x[2]>>

FSub(x, y) == FAdd(x, FNeg(y))

\* quotient of two floats (x / 0 = +-inf, 0 / 0 = inf / inf = NaN, x / inf = 0)
FQuot(x, y) ==
    IF IsFinite(x) /\ IsFinite(y)
    THEN IF y[1] = 0 THEN <<Sign(x[1]), 0>>
         ELSE FMul(x, IF y[1] < 0 THEN <<-y[2], -y[1]>> ELSE <<y[2], y[1]>>)
    ELSE IF IsFinite(x) /\ ~IsNaN(y) THEN FInt(0)
    ELSE IF IsFinite(y) /\ ~IsNaN(x) THEN <<x[1] * (IF y[1] < 0 THEN -1 ELSE 1), 0>>
    ELSE <<0, 0>>

\* ---------------------------------------------------------------- matrices
RECURSIVE SumTo(_, _, _)
SumTo(M, lo, hi) == IF lo > hi THEN FInt(0) ELSE FAdd(M[lo][lo], SumTo(M, lo + 1, hi))

\* jnp.trace(M[a:b, a:b]) with Python slice bounds a, b (0-based, half open)
Trace(M, a, b) == SumTo(M, a + 1, b)

\* ----------------------------------------------------------------- kernels
\* coordinates (x1, x2) of a point identifier
Coord(p) == <<p % 2, p>>

\* viscosity default of Gram_matrix_assembly and construct_Theta_test: nu=0.02
NuDefault == <<1, 50>>

\* k-th derivative of the first-coordinate factor of the kernel at distance r
KA(k, r) ==
    CASE k = 0 -> 3 - Abs(r)
      [] k = 1 -> -r
      [] k = 2 -> -1
      [] OTHER -> 0

\* k-th derivative of the second-coordinate factor of the kernel at distance r
KG(k, r) ==
    CASE k = 0 -> 4 - Abs(r)
      [] k = 1 -> -r
      [] k = 2 -> -1
      [] k = 3 -> r
      [] k = 4 -> 1
      [] OTHER -> 0

RECURSIVE Pow(_, _)
Pow(b, e) == IF e = 0 THEN 1 ELSE b * Pow(b, e - 1)

\* derivative orders <<in x1, in x2, in y1, in y2>> of a kernel method
OpOrders(op) ==
    CASE op = "kappa" -> <<0, 0, 0, 0>>
      [] op = "D_x1_kappa" -> <<1, 0, 0, 0>>
      [] op = "D_x2_kappa" -> <<0, 1, 0, 0>>
      [] op = "DD_x2_kappa" -> <<0, 2, 0, 0>>
      [] op = "D_y1_kappa" -> <<0, 0, 1, 0>>
      [] op = "D_y2_kappa" -> <<0, 0, 0, 1>>
      [] op = "DD_y2_kappa" -> <<0, 0, 0, 2>>
      [] op = "D_x1_D_y1_kappa" -> <<1, 0, 1, 0>>
      [] op = "D_x1_D_y2_kappa" -> <<1, 0, 0, 1>>
      [] op = "D_x2_D_y2_kappa" -> <<0, 1, 0, 1>>
      [] op = "D_x1_DD_y2_kappa" -> <<1, 0, 0, 2>>
      [] op = "DD_x2_D_y2_kappa" -> <<0, 2, 0, 1>>
      [] op = "DD_x2_DD_y2_kappa" -> <<0, 2, 0, 2>>

\* the kernel differentiated o[1], o[2] times in x1, x2 and o[3], o[4] times in
\* y1, y2, at the points x, y: a stationary product kernel
\* kappa(x, y) = a(x1-y1) g(x2-y2), whose bandwidth parameter scales the second
\* coordinate (anisotropic) or both (isotropic)
KernelAt(kernel, kernel_parameter, o, x, y) ==
    LET r1 == Coord(x)[1] - Coord(y)[1]
        r2 == Coord(x)[2] - Coord(y)[2]
        sgn == IF (o[3] + o[4]) % 2 = 1 THEN -1 ELSE 1
        sc == IF kernel = "Gaussian" THEN Pow(kernel_parameter, (o[1] + o[2] + o[3] + o[4]) \div 2)
              ELSE Pow(kernel_parameter, (o[2] + o[4]) \div 2)
    IN  FInt(sgn * sc * KA(o[1] + o[3], r1) * KG(o[2] + o[4], r2))

\* a kernel method of Gaussian_kernel / Anisotropic_Gaussian_kernel
KernelValue(kernel, kernel_parameter, op, x, y) ==
    IF op = "Delta_y_kappa"
    THEN FAdd(KernelAt(kernel, kernel_parameter, <<0, 0, 2, 0>>, x, y),
              KernelAt(kernel, kernel_parameter, <<0, 0, 0, 2>>, x, y))
    ELSE KernelAt(kernel, kernel_parameter, OpOrders(op), x, y)

\* ----------------------------------------------- Gram_matrice_new.py assembly
SupportedKernels == {"Gaussian", "anisotropic_Gaussian"}

\* jnp.concatenate([Xd, X_boundary]): interior points followed by boundary points
Xdb(X_domain, X_boundary) == X_domain \o X_boundary

\* outcome of a call: a returned value, a raised exception, or a plain return of None
Returned(M) == [st |-> "ok", exc |-> "", val |-> M]

Raised(e) == [st |-> "raise", exc |-> e, val |-> <<>>]

ReturnedNone == [st |-> "none", exc |-> "", val |-> <<>>]

\* the value of one vmap'ed kernel expression of the eqn == "Burgers" branch of
\* Gram_matrix_assembly at the points x, y
BurgersVal(kernel, kernel_parameter, nu, v, x, y) ==
    LET K(op) == KernelValue(kernel, kernel_parameter, op, x, y)
    IN  CASE v = "v00" -> FAdd(FSub(K("D_x1_D_y1_kappa"),
                                    FMul(FMul(FInt(2), nu), K("D_x1_DD_y2_kappa"))),
                               FMul(FMul(nu, nu), K("DD_x2_DD_y2_kappa")))
          [] v = "v01" -> FSub(K("D_x1_D_y2_kappa"), FMul(nu, K("DD_x2_D_y2_kappa")))
          [] v = "v11" -> K("D_x2_D_y2_kappa")
          [] v = "v22" -> K("kappa")
          [] v = "v02" -> FSub(K("D_x1_kappa"), FMul(nu, K("DD_x2_kappa")))
          [] v = "v12" -> K("D_x2_kappa")

\* the nine writes with the last one taking the values of the block above it
\* (v02 in place of v12)
BurgersWritesMiscopied(N, Nb) ==
    LET D == 3 * N + Nb
    IN  << [r0 |-> 0, r1 |-> N, c0 |-> 0, c1 |-> N, v |-> "v00", tr |-> FALSE],
           [r0 |-> 0, r1 |-> N, c0 |-> N, c1 |-> 2 * N, v |-> "v01", tr |-> FALSE],
           [r0 |-> N, r1 |-> 2 * N, c0 |-> 0, c1 |-> N, v |-> "v01", tr |-> TRUE],
           [r0 |-> N, r1 |-> 2 * N, c0 |-> N, c1 |-> 2 * N, v |-> "v11", tr |-> FALSE],
           [r0 |-> 2 * N, r1 |-> D, c0 |-> 2 * N, c1 |-> D, v |-> "v22", tr |-> FALSE],
           [r0 |-> 0, r1 |-> N, c0 |-> 2 * N, c1 |-> D, v |-> "v02", tr |-> FALSE],
           [r0 |-> 2 * N, r1 |-> D, c0 |-> 0, c1 |-> N, v |-> "v02", tr |-> TRUE],
           [r0 |-> N, r1 |-> 2 * N, c0 |-> 2 * N, c1 |-> D, v |-> "v12", tr |-> FALSE],
           [r0 |-> 2 * N, r1 |-> D, c0 |-> N, c1 |-> 2 * N, v |-> "v02", tr |-> TRUE] >>

\* the nine writes with the last one set at rows [2N, D), columns [0, N): it
\* overwrites the block of the seventh write and leaves columns [N, 2N) of the
\* last rows unwritten
BurgersWritesOverlapping(N, Nb) ==
    LET D == 3 * N + Nb
    IN  << [r0 |-> 0, r1 |-> N, c0 |-> 0, c1 |-> N, v |-> "v00", tr |-> FALSE],
           [r0 |-> 0, r1 |-> N, c0 |-> N, c1 |-> 2 * N, v |-> "v01", tr |-> FALSE],
           [r0 |-> N, r1 |-> 2 * N, c0 |-> 0, c1 |-> N, v |-> "v01", tr |-> TRUE],
           [r0 |-> N, r1 |-> 2 * N, c0 |-> N, c1 |-> 2 * N, v |-> "v11", tr |-> FALSE],
           [r0 |-> 2 * N, r1 |-> D, c0 |-> 2 * N, c1 |-> D, v |-> "v22", tr |-> FALSE],
           [r0 |-> 0, r1 |-> N, c0 |-> 2 * N, c1 |-> D, v |-> "v02", tr |-> FALSE],
           [r0 |-> 2 * N, r1 |-> D, c0 |-> 0, c1 |-> N, v |-> "v02", tr |-> TRUE],
           [r0 |-> N, r1 |-> 2 * N, c0 |-> 2 * N, c1 |-> D, v |-> "v12", tr |-> FALSE],
           [r0 |-> 2 * N, r1 |-> D, c0 |-> 0, c1 |-> N, v |-> "v12", tr |-> TRUE] >>

\* the nine Theta.at[r0:r1, c0:c1].set(...) of the eqn == "Burgers" branch, in
\* program order: the rows and columns written (0-based, half open), the kernel
\* expression reshaped into the block, and whether its transpose is written
BurgersWrites(N, Nb) ==
    LET D == 3 * N + Nb
    IN  << [r0 |-> 0, r1 |-> N, c0 |-> 0, c1 |-> N, v |-> "v00", tr |-> FALSE],
           [r0 |-> 0, r1 |-> N, c0 |-> N, c1 |-> 2 * N, v |-> "v01", tr |-> FALSE],
           [r0 |-> N, r1 |-> 2 * N, c0 |-> 0, c1 |-> N, v |-> "v01", tr |-> TRUE],
           [r0 |-> N, r1 |-> 2 * N, c0 |-> N, c1 |-> 2 * N, v |-> "v11", tr |-> FALSE],
           [r0 |-> 2 * N, r1 |-> D, c0 |-> 2 * N, c1 |-> D, v |-> "v22", tr |-> FALSE],
           [r0 |-> 0, r1 |-> N, c0 |-> 2 * N, c1 |-> D, v |-> "v02", tr |-> FALSE],
           [r0 |-> 2 * N, r1 |-> D, c0 |-> 0, c1 |-> N, v |-> "v02", tr |-> TRUE],
           [r0 |-> N, r1 |-> 2 * N, c0 |-> 2 * N, c1 |-> D, v |-> "v12", tr |-> FALSE],
           [r0 |-> 2 * N, r1 |-> D, c0 |-> N, c1 |-> 2 * N, v |-> "v12", tr |-> TRUE] >>

\* whether a write covers entry (i, j) (1-based)
Covers(w, i, j) == i > w.r0 /\ i <= w.r1 /\ j > w.c0 /\ j <= w.c1

Max(S) == CHOOSE m \in S : \A n \in S : n <= m

\* the matrix left by a sequence of block writes into jnp.zeros((D, D)): an entry
\* holds what the last write covering it put there, and 0 if none covers it.
\* Rows of v02, v12 are interior points and their columns interior + boundary
\* points; v22 has interior + boundary points on both sides
WrittenMatrix(W, D, kernel, kernel_parameter, nu, X_domain, X_boundary) ==
    LET XB == Xdb(X_domain, X_boundary)
        rowpt(v, a) == IF v = "v22" THEN XB[a] ELSE X_domain[a]
        colpt(v, b) == IF v \in {"v22", "v02", "v12"} THEN XB[b] ELSE X_domain[b]
        val(w, i, j) ==
            IF w.tr
            THEN BurgersVal(kernel, kernel_parameter, nu, w.v,
                            rowpt(w.v, j - w.c0), colpt(w.v, i - w.r0))
            ELSE BurgersVal(kernel, kernel_parameter, nu, w.v,
                            rowpt(w.v, i - w.r0), colpt(w.v, j - w.c0))
    IN  [i \in 1 .. D |->
            [j \in 1 .. D |->
                LET ks == {k \in 1 .. Len(W) : Covers(W[k], i, j)}
                IN  IF ks = {} THEN FInt(0) ELSE val(W[Max(ks)], i, j)]]

BurgersTheta(X_domain, X_boundary, kernel, kernel_parameter, nu) ==
    WrittenMatrix(BurgersWrites(Len(X_domain), Len(X_boundary)),
                  3 * Len(X_domain) + Len(X_boundary),
                  kernel, kernel_parameter, nu, X_domain, X_boundary)

\* Gram_matrix_assembly of src_new: K is bound only for the two supported kernel
\* tags, a matrix is built and returned only for eqn == "Burgers"; with any other
\* eqn the function falls off its end and returns None
Gram_matrix_assembly(X_domain, X_boundary, eqn, kernel, kernel_parameter, nu) ==
    IF eqn = "Burgers"
    THEN IF kernel \in SupportedKernels
         THEN Returned(BurgersTheta(X_domain, X_boundary, kernel, kernel_parameter, nu))
         ELSE Raised("NameError")
    ELSE ReturnedNone

\* the Burgers cross-covariance with its first two column blocks in the other
\* order: [0, N) D_y2 kappa, [N, 2N) D_y1 kappa - nu DD_y2 kappa
Theta_test_matrixSwapped(X_test, X_domain, X_boundary, eqn, kernel, kernel_parameter, nu) ==
    LET N == Len(X_domain)
        Nb == Len(X_boundary)
        XB == Xdb(X_domain, X_boundary)
        K(op, x, y) == KernelValue(kernel, kernel_parameter, op, x, y)
    IN  IF eqn = "Nonlinear_elliptic"
        THEN [t \in 1 .. Len(X_test) |->
                [j \in 1 .. 2 * N + Nb |->
                    IF j <= N THEN K("Delta_y_kappa", X_test[t], X_domain[j])
                    ELSE K("kappa", X_test[t], XB[j - N])]]
        ELSE [t \in 1 .. Len(X_test) |->
                [j \in 1 .. 3 * N + Nb |->
                    IF j <= N THEN K("D_y2_kappa", X_test[t], X_domain[j])
                    ELSE IF j <= 2 * N
                    THEN FSub(K("D_y1_kappa", X_test[t], X_domain[j - N]),
                              FMul(nu, K("DD_y2_kappa", X_test[t], X_domain[j - N])))
                    ELSE K("kappa", X_test[t], XB[j - 2 * N])]]

\* construct_Theta_test of src_new: a matrix is built for eqn "Nonlinear_elliptic"
\* (columns [0, N) Delta_y kappa, [N, 2N + Nb) kappa) and for eqn "Burgers"
\* (columns [0, N) D_y1 kappa - nu DD_y2 kappa, [N, 2N) D_y2 kappa,
\* [2N, 3N + Nb) kappa); with any other eqn the function returns None
Theta_test_matrix(X_test, X_domain, X_boundary, eqn, kernel, kernel_parameter, nu) ==
    LET N == Len(X_domain)
        Nb == Len(X_boundary)
        XB == Xdb(X_domain, X_boundary)
        K(op, x, y) == KernelValue(kernel, kernel_parameter, op, x, y)
    IN  IF eqn = "Nonlinear_elliptic"
        THEN [t \in 1 .. Len(X_test) |->
                [j \in 1 .. 2 * N + Nb |->
                    IF j <= N THEN K("Delta_y_kappa", X_test[t], X_domain[j])
                    ELSE K("kappa", X_test[t], XB[j - N])]]
        ELSE [t \in 1 .. Len(X_test) |->
                [j \in 1 .. 3 * N + Nb |->
                    IF j <= N
                    THEN FSub(K("D_y1_kappa", X_test[t], X_domain[j]),
                              FMul(nu, K("DD_y2_kappa", X_test[t], X_domain[j])))
                    ELSE IF j <= 2 * N THEN K("D_y2_kappa", X_test[t], X_domain[j - N])
                    ELSE K("kappa", X_test[t], XB[j - 2 * N])]]

construct_Theta_test(X_test, X_domain, X_boundary, eqn, kernel, kernel_parameter, nu) ==
    IF eqn \in {"Nonlinear_elliptic", "Burgers"}
    THEN IF kernel \in SupportedKernels
         THEN Returned(Theta_test_matrix(X_test, X_domain, X_boundary, eqn, kernel,
                                         kernel_parameter, nu))
         ELSE Raised("NameError")
    ELSE ReturnedNone

\* ------------------------------------- src/Gram_matrice.py (the older assembly)
\* number of derivative blocks of size N_domain that precede the value block of
\* size N_domain + N_boundary in the Gram matrix of a PDE tag
DerivBlocks(eqn) == IF eqn = "Nonlinear_elliptic" THEN 1 ELSE 3

\* differential operator of each derivative block, as terms <<order in the first
\* coordinate, order in the second coordinate>> that are added up
BlockTerms(eqn, k) ==
    CASE eqn = "Nonlinear_elliptic" -> <<<<2, 0>>, <<0, 2>>>>
      [] eqn = "Burgers" -> IF k = 1 THEN <<<<1, 0>>>> ELSE IF k = 2 THEN <<<<0, 1>>>> ELSE <<<<0, 2>>>>
      [] eqn = "Eikonal" -> IF k = 1 THEN <<<<1, 0>>>> ELSE IF k = 2 THEN <<<<0, 1>>>>
                            ELSE <<<<2, 0>>, <<0, 2>>>>

\* sum of a sequence of floats
RECURSIVE FSum(_)
FSum(s) == IF s = <<>> THEN FInt(0) ELSE FAdd(Head(s), FSum(Tail(s)))

\* the Gram matrix of the older assembly: block (a, b) applies block a's operator
\* in x and block b's operator in y to the kernel
OldTheta(X_domain, X_boundary, eqn, kernel, kernel_parameter) ==
    LET N == Len(X_domain)
        Nb == Len(X_boundary)
        B == DerivBlocks(eqn)
        D == (B + 1) * N + Nb
        XB == Xdb(X_domain, X_boundary)
        blk(i) == IF i <= B * N THEN ((i - 1) \div N) + 1 ELSE B + 1
        pt(i) == IF i <= B * N THEN X_domain[((i - 1) % N) + 1] ELSE XB[i - B * N]
        terms(b) == IF b = B + 1 THEN <<<<0, 0>>>> ELSE BlockTerms(eqn, b)
        entry(i, j) ==
            LET tx == terms(blk(i))
                ty == terms(blk(j))
            IN  FSum([k \in 1 .. Len(tx) * Len(ty) |->
                        LET p == tx[((k - 1) \div Len(ty)) + 1]
                            q == ty[((k - 1) % Len(ty)) + 1]
                        IN  KernelAt(kernel, kernel_parameter, <<p[1], p[2], q[1], q[2]>>,
                                     pt(i), pt(j))])
    IN  [i \in 1 .. D |-> [j \in 1 .. D |-> entry(i, j)]]

\* Gram_matrix_assembly of src/Gram_matrice.py, which the classes of src/PDEs.py call
Gram_matrix_assembly_old(X_domain, X_boundary, eqn, kernel, kernel_parameter) ==
    IF eqn \in {"Nonlinear_elliptic", "Burgers", "Eikonal"} /\ kernel \in SupportedKernels
    THEN Returned(OldTheta(X_domain, X_boundary, eqn, kernel, kernel_parameter))
    ELSE Raised("InvalidPDEFamilyOrKernelCombination")

\* construct_Theta_test of src/Gram_matrice.py: one column block per block of the
\* Gram matrix, the block's operator applied in y
OldThetaTest(X_test, X_domain, X_boundary, eqn, kernel, kernel_parameter) ==
    LET N == Len(X_domain)
        Nb == Len(X_boundary)
        B == DerivBlocks(eqn)
        D == (B + 1) * N + Nb
        XB == Xdb(X_domain, X_boundary)
        blk(j) == IF j <= B * N THEN ((j - 1) \div N) + 1 ELSE B + 1
        pt(j) == IF j <= B * N THEN X_domain[((j - 1) % N) + 1] ELSE XB[j - B * N]
        terms(b) == IF b = B + 1 THEN <<<<0, 0>>>> ELSE BlockTerms(eqn, b)
        entry(t, j) ==
            LET ty == terms(blk(j))
            IN  FSum([k \in 1 .. Len(ty) |->
                        KernelAt(kernel, kernel_parameter, <<0, 0, ty[k][1], ty[k][2]>>,
                                 X_test[t], pt(j))])
    IN  [t \in 1 .. Len(X_test) |-> [j \in 1 .. D |-> entry(t, j)]]

construct_Theta_test_old(X_test, X_domain, X_boundary, eqn, kernel, kernel_parameter) ==
    IF eqn \in {"Nonlinear_elliptic", "Burgers", "Eikonal"} /\ kernel \in SupportedKernels
    THEN Returned(OldThetaTest(X_test, X_domain, X_boundary, eqn, kernel, kernel_parameter))
    ELSE Raised("InvalidPDEFamilyOrKernelCombination")

\* ------------------------------------------------------- the problem classes
\* the eqn tag each class passes to the assembly functions
EqnOf(c) ==
    CASE c = "Nonlinear_elliptic2d" -> "Nonlinear_elliptic"
      [] c = "Burgers" -> "Burgers"
      [] c = "Burgers_new" -> "Burgers"
      [] c = "Eikonal" -> "Eikonal"

\* the assembly call at the head of each class's Gram_matrix: the class of src_new
\* calls Gram_matrice_new.py (and passes no nu), the classes of src call
\* src/Gram_matrice.py
AssemblyCall(c, Xd, Xb, k, kp) ==
    IF c = "Burgers_new"
    THEN Gram_matrix_assembly(Xd, Xb, "Burgers", k, kp, NuDefault)
    ELSE Gram_matrix_assembly_old(Xd, Xb, EqnOf(c), k, kp)

\* the construct_Theta_test call at the head of each class's extend_sol
ThetaTestCall(c, Xt, Xd, Xb, k, kp) ==
    IF c = "Burgers_new"
    THEN construct_Theta_test(Xt, Xd, Xb, "Burgers", k, kp, NuDefault)
    ELSE construct_Theta_test_old(Xt, Xd, Xb, EqnOf(c), k, kp)

\* the identity of the four-block classes, jnp.eye(4 * N + Nb), in every class
EyeSizeFourBlocks(c, N, Nb) == 4 * N + Nb

\* size of the identity added by nugget_type == "identity":
\* jnp.eye(2N + Nb) (elliptic), jnp.eye(4N + Nb) (Burgers, Eikonal of src),
\* jnp.eye(3N + Nb) (Burgers of src_new)
EyeSize(c, N, Nb) ==
    CASE c = "Nonlinear_elliptic2d" -> 2 * N + Nb
      [] c = "Burgers" -> 4 * N + Nb
      [] c = "Eikonal" -> 4 * N + Nb
      [] c = "Burgers_new" -> 3 * N + Nb

\* the start index of the trailing slice whose trace is the denominator of the
\* ratios: Theta[N:, N:] (elliptic, trace2), Theta[3N:, 3N:] (trace4) in the
\* three other classes
RefStart(c, N) == IF c = "Nonlinear_elliptic2d" THEN N ELSE 3 * N

\* number of leading blocks of size N_domain whose trace is a numerator:
\* trace1 (elliptic), trace1..trace3 (Burgers, Eikonal of src), trace1, trace2
\* (Burgers of src_new)
NumRatios(c) ==
    CASE c = "Nonlinear_elliptic2d" -> 1
      [] c = "Burgers" -> 3
      [] c = "Eikonal" -> 3
      [] c = "Burgers_new" -> 2

\* the quotients taken the other way round: [trace4 / trace1, trace4 / trace2, ...]
RatiosInverted(c, T, N) ==
    [k \in 1 .. NumRatios(c) |->
        FQuot(Trace(T, RefStart(c, N), Len(T)), Trace(T, (k - 1) * N, k * N))]

\* ratio = [trace1 / trace4, trace2 / trace4, ...]
Ratios(c, T, N) ==
    [k \in 1 .. NumRatios(c) |->
        FQuot(Trace(T, (k - 1) * N, k * N), Trace(T, RefStart(c, N), Len(T)))]

\* temp = concatenate(ratio[0] * ones(N), ..., ones(N + Nb))
AdaptiveTemp(c, T, N, Nb) ==
    LET r == Ratios(c, T, N)
    IN  [i \in 1 .. NumRatios(c) * N + N + Nb |->
            IF i <= NumRatios(c) * N THEN r[((i - 1) \div N) + 1] ELSE FInt(1)]

\* Theta + nugget * jnp.diag(d)
AddDiag(T, nugget, d) ==
    [i \in 1 .. Len(T) |->
        [j \in 1 .. Len(T) |->
            IF i = j THEN FAdd(T[i][j], FMul(FInt(nugget), d[i])) ELSE T[i][j]]]

\* the value Gram_matrix assigns to self.Theta, for the three policies
Regularized(c, T, N, Nb, nugget, nugget_type) ==
    CASE nugget_type = "adaptive" -> AddDiag(T, nugget, AdaptiveTemp(c, T, N, Nb))
      [] nugget_type = "identity" -> AddDiag(T, nugget, [i \in 1 .. EyeSize(c, N, Nb) |-> FInt(1)])
      [] nugget_type = "none" -> T

\* length of the vector GN_method draws: random.normal(0.0, 1.0, (k * self.N_domain))
SolLen(c, N) ==
    CASE c = "Nonlinear_elliptic2d" -> N
      [] c = "Burgers" -> 3 * N
      [] c = "Eikonal" -> 3 * N
      [] c = "Burgers_new" -> 2 * N

\* number of entries of z that loss(z) reads: the slices z[:N], z[N:2N], z[2N:]
\* (all of z in the elliptic class)
LossUnknowns(c, N) ==
    CASE c = "Nonlinear_elliptic2d" -> N
      [] c = "Burgers" -> N + N + N
      [] c = "Eikonal" -> N + N + N
      [] c = "Burgers_new" -> N + N

\* ------------------------------------------------ the vector the loss whitens
\* a term c * d[di] * prod(z[k] : k in zs) ^ pw of an entry of a stacked vector:
\* c a coefficient of the object ("1", "-alpha", "nu", ...), d a data vector
\* ("rhs_f", "bdy_g", "" for none), zs the 1-based indices into z, pw the power
MonoTerm(c, d, di, zs, pw) == [c |-> c, d |-> d, di |-> di, z |-> zs, pw |-> pw]

\* the entry z[k]
ZEntry(k) == {MonoTerm("1", "", 0, <<k>>, "1")}

\* the entry bdy_g[k]
BdyEntry(k) == {MonoTerm("1", "bdy_g", k, <<>>, "1")}

\* vv (zz in the elliptic class): the vector loss(z) stacks with jnp.append and
\* then solves against self.L, entry by entry as a sum of terms
LossVector(c, N, Nb) ==
    CASE c = "Burgers_new" ->
            [i \in 1 .. 3 * N + Nb |->
                IF i <= N THEN {MonoTerm("1", "rhs_f", i, <<>>, "1"),
                                MonoTerm("-alpha", "", 0, <<i, N + i>>, "1")}
                ELSE IF i <= 2 * N THEN ZEntry(i)
                ELSE IF i <= 3 * N THEN ZEntry(i - 2 * N)
                ELSE BdyEntry(i - 3 * N)]
      [] c = "Burgers" ->
            [i \in 1 .. 4 * N + Nb |->
                IF i <= N THEN {MonoTerm("nu", "", 0, <<2 * N + i>>, "1"),
                                MonoTerm("1", "rhs_f", i, <<>>, "1"),
                                MonoTerm("-alpha", "", 0, <<i, N + i>>, "1")}
                ELSE IF i <= 2 * N THEN ZEntry(i)
                ELSE IF i <= 3 * N THEN ZEntry(i)
                ELSE IF i <= 4 * N THEN ZEntry(i - 3 * N)
                ELSE BdyEntry(i - 4 * N)]
      [] c = "Eikonal" ->
            [i \in 1 .. 4 * N + Nb |->
                IF i <= N THEN ZEntry(N + i)
                ELSE IF i <= 2 * N THEN ZEntry(N + i)
                ELSE IF i <= 3 * N THEN {MonoTerm("-1/eps", "rhs_f**2", i - 2 * N, <<>>, "1"),
                                         MonoTerm("1/eps", "", 0, <<i - N>>, "2"),
                                         MonoTerm("1/eps", "", 0, <<i>>, "2")}
                ELSE IF i <= 4 * N THEN ZEntry(i - 3 * N)
                ELSE BdyEntry(i - 4 * N)]
      [] c = "Nonlinear_elliptic2d" ->
            [i \in 1 .. 2 * N + Nb |->
                IF i <= N THEN {MonoTerm("alpha", "", 0, <<i>>, "m"),
                                MonoTerm("-1", "rhs_f", i, <<>>, "1")}
                ELSE IF i <= 2 * N THEN ZEntry(i - N)
                ELSE BdyEntry(i - 2 * N)]

\* temp of loss_relaxed(z, pen_lambda): [v, w, bdy_g] with v = z[:N], w = z[N:],
\* the vector GN_relaxed_method's loss solves against self.L
RelaxedVector(N, Nb) ==
    [i \in 1 .. 2 * N + Nb |-> IF i <= 2 * N THEN ZEntry(i) ELSE BdyEntry(i - 2 * N)]

\* the vector the loss of a solver method whitens
LossVectorOf(method, c, N, Nb) ==
    IF method = "GN_relaxed_method" THEN RelaxedVector(N, Nb) ELSE LossVector(c, N, Nb)

\* length of the vector a solver method draws: GN_relaxed_method draws
\* random.normal(0.0, 1.0, (2 * self.N_domain))
DrawLen(method, c, N) == IF method = "GN_relaxed_method" THEN 2 * N ELSE SolLen(c, N)

\* the block [z[off + 1], ..., z[off + N]] of the iterate
ZBlock(off, N) == [i \in 1 .. N |-> ZEntry(off + i)]

\* self.bdy_g as a block of a stacked vector
BdyBlock(Nb) == [i \in 1 .. Nb |-> BdyEntry(i)]

\* sol_vec with the blocks v2 and v0 of the Burgers classes in the other order
SolVecRowsSwapped(method, c, N, Nb) ==
    IF method = "GN_relaxed_method"
    THEN ZBlock(0, 2 * N) \o BdyBlock(Nb)
    ELSE CASE c = "Burgers_new" ->
                [i \in 1 .. N |-> {MonoTerm("1", "rhs_f", i, <<>>, "1"),
                                   MonoTerm("-alpha", "", 0, <<i, N + i>>, "1")}]
                \o ZBlock(0, N) \o ZBlock(N, N) \o BdyBlock(Nb)
           [] c = "Burgers" ->
                [i \in 1 .. N |-> {MonoTerm("nu", "", 0, <<2 * N + i>>, "1"),
                                   MonoTerm("1", "rhs_f", i, <<>>, "1"),
                                   MonoTerm("-alpha", "", 0, <<i, N + i>>, "1")}]
                \o ZBlock(0, N) \o ZBlock(2 * N, N) \o ZBlock(N, N) \o BdyBlock(Nb)
           [] c = "Eikonal" ->
                ZBlock(N, N) \o ZBlock(2 * N, N)
                \o [i \in 1 .. N |-> {MonoTerm("-1/eps", "rhs_f**2", i, <<>>, "1"),
                                      MonoTerm("1/eps", "", 0, <<N + i>>, "2"),
                                      MonoTerm("1/eps", "", 0, <<2 * N + i>>, "2")}]
                \o ZBlock(0, N) \o BdyBlock(Nb)
           [] c = "Nonlinear_elliptic2d" ->
                [i \in 1 .. N |-> {MonoTerm("alpha", "", 0, <<i>>, "m"),
                                   MonoTerm("-1", "rhs_f", i, <<>>, "1")}]
                \o ZBlock(0, N) \o BdyBlock(Nb)

\* sol_vec as the tail of each solver method concatenates it from the final sol:
\* (rhs_f - alpha v0 v2, v2, v0, bdy_g) in src_new's Burgers,
\* (nu v3 + rhs_f - alpha v0 v2, v2, v3, v0, bdy_g) in src's Burgers,
\* (v1, v2, v3, v0, bdy_g) in Eikonal, (alpha sol**m - rhs_f, sol, bdy_g) in
\* the elliptic class and (sol, bdy_g) in its GN_relaxed_method
SolVecRows(method, c, N, Nb) ==
    IF method = "GN_relaxed_method"
    THEN ZBlock(0, 2 * N) \o BdyBlock(Nb)
    ELSE CASE c = "Burgers_new" ->
                [i \in 1 .. N |-> {MonoTerm("1", "rhs_f", i, <<>>, "1"),
                                   MonoTerm("-alpha", "", 0, <<i, N + i>>, "1")}]
                \o ZBlock(N, N) \o ZBlock(0, N) \o BdyBlock(Nb)
           [] c = "Burgers" ->
                [i \in 1 .. N |-> {MonoTerm("nu", "", 0, <<2 * N + i>>, "1"),
                                   MonoTerm("1", "rhs_f", i, <<>>, "1"),
                                   MonoTerm("-alpha", "", 0, <<i, N + i>>, "1")}]
                \o ZBlock(N, N) \o ZBlock(2 * N, N) \o ZBlock(0, N) \o BdyBlock(Nb)
           [] c = "Eikonal" ->
                ZBlock(N, N) \o ZBlock(2 * N, N)
                \o [i \in 1 .. N |-> {MonoTerm("-1/eps", "rhs_f**2", i, <<>>, "1"),
                                      MonoTerm("1/eps", "", 0, <<N + i>>, "2"),
                                      MonoTerm("1/eps", "", 0, <<2 * N + i>>, "2")}]
                \o ZBlock(0, N) \o BdyBlock(Nb)
           [] c = "Nonlinear_elliptic2d" ->
                [i \in 1 .. N |-> {MonoTerm("alpha", "", 0, <<i>>, "m"),
                                   MonoTerm("-1", "rhs_f", i, <<>>, "1")}]
                \o ZBlock(0, N) \o BdyBlock(Nb)

\* self.sol_sampled_pts: v0 = sol[: N] (sol itself in the elliptic class),
\* sol[N :] in GN_relaxed_method
SampledPts(method, c, N) ==
    IF method = "GN_relaxed_method" THEN ZBlock(N, N) ELSE ZBlock(0, N)

\* ---------------------------------------------------------- Burgers.Hessian_GN
\* number of columns of mtx: jnp.zeros((3N + Nb, 2N)) in src_new,
\* jnp.zeros((4N + Nb, 3N)) in src
MtxColumns(c, N) == IF c = "Burgers_new" THEN 2 * N ELSE 3 * N

\* the entry of jnp.eye(N) at (a, b)
EyeEntry(a, b) == IF a = b THEN {MonoTerm("1", "", 0, <<>>, "1")} ELSE {}

\* the entry of -self.alpha * jnp.diag(v) at (a, b), v starting at z[off + 1]
AlphaDiagEntry(off, a, b) ==
    IF a = b THEN {MonoTerm("-alpha", "", 0, <<off + a>>, "1")} ELSE {}

\* mtx with the identity of the last write set at columns [N, 2N)
HessianMtxShifted(c, N, Nb) ==
    IF c = "Burgers_new"
    THEN [i \in 1 .. 3 * N + Nb |->
            [j \in 1 .. 2 * N |->
                IF i <= N
                THEN IF j <= N THEN AlphaDiagEntry(N, i, j) ELSE AlphaDiagEntry(0, i, j - N)
                ELSE IF i <= 2 * N
                THEN IF j > N THEN EyeEntry(i - N, j - N) ELSE {}
                ELSE IF i <= 3 * N
                THEN IF j > N THEN EyeEntry(i - 2 * N, j - N) ELSE {}
                ELSE {}]]
    ELSE [i \in 1 .. 4 * N + Nb |->
            [j \in 1 .. 3 * N |->
                IF i <= N
                THEN IF j <= N THEN AlphaDiagEntry(N, i, j)
                     ELSE IF j <= 2 * N THEN AlphaDiagEntry(0, i, j - N)
                     ELSE IF i = j - 2 * N THEN {MonoTerm("nu", "", 0, <<>>, "1")} ELSE {}
                ELSE IF i <= 2 * N
                THEN IF j > N /\ j <= 2 * N THEN EyeEntry(i - N, j - N) ELSE {}
                ELSE IF i <= 3 * N
                THEN IF j > 2 * N THEN EyeEntry(i - 2 * N, j - 2 * N) ELSE {}
                ELSE IF i <= 4 * N
                THEN IF j > N /\ j <= 2 * N THEN EyeEntry(i - 3 * N, j - N) ELSE {}
                ELSE {}]]

\* mtx of Hessian_GN after its writes into jnp.zeros: rows [0, N) hold
\* mtx1 = concatenate(-alpha diag(v2), -alpha diag(v0) [, nu eye(N)]), the next
\* row blocks an identity each at the columns the code names, the last N_boundary
\* rows stay zero
HessianMtx(c, N, Nb) ==
    IF c = "Burgers_new"
    THEN [i \in 1 .. 3 * N + Nb |->
            [j \in 1 .. 2 * N |->
                IF i <= N
                THEN IF j <= N THEN AlphaDiagEntry(N, i, j) ELSE AlphaDiagEntry(0, i, j - N)
                ELSE IF i <= 2 * N
                THEN IF j > N THEN EyeEntry(i - N, j - N) ELSE {}
                ELSE IF i <= 3 * N
                THEN IF j <= N THEN EyeEntry(i - 2 * N, j) ELSE {}
                ELSE {}]]
    ELSE [i \in 1 .. 4 * N + Nb |->
            [j \in 1 .. 3 * N |->
                IF i <= N
                THEN IF j <= N THEN AlphaDiagEntry(N, i, j)
                     ELSE IF j <= 2 * N THEN AlphaDiagEntry(0, i, j - N)
                     ELSE IF i = j - 2 * N THEN {MonoTerm("nu", "", 0, <<>>, "1")} ELSE {}
                ELSE IF i <= 2 * N
                THEN IF j > N /\ j <= 2 * N THEN EyeEntry(i - N, j - N) ELSE {}
                ELSE IF i <= 3 * N
                THEN IF j > 2 * N THEN EyeEntry(i - 2 * N, j - 2 * N) ELSE {}
                ELSE IF i <= 4 * N
                THEN IF j <= N THEN EyeEntry(i - 3 * N, j) ELSE {}
                ELSE {}]]

\* Hessian_GN(z) of the two Burgers classes: ss = jnp.linalg.solve(self.L, mtx);
\* return 2 * jnp.matmul(jnp.transpose(ss), ss)
Hessian_GN(c, N, Nb) ==
    [scale |-> 2,
     left |-> [transposed |-> TRUE, solved_with |-> "L", mtx |-> HessianMtx(c, N, Nb)],
     right |-> [transposed |-> FALSE, solved_with |-> "L", mtx |-> HessianMtx(c, N, Nb)]]

\* --------------------------------------------------------------------- state
VARIABLES
    cls,              \* class of the problem object
    nu,               \* self.nu, the viscosity the object was constructed with
    pc,               \* "idle", "gn" (inside GN_method), "exited", "crashed"
    exc,              \* exception that ended the run ("" while it runs)
    exit_status,      \* exit status of the ended run (-1 while it runs)
    calls,            \* number of method calls made on the object so far
    attrs,            \* names of the attributes assigned so far
    X_domain, X_boundary, N_domain, N_boundary, rhs_f, bdy_g,
    kernel, kernel_parameter, nugget, nugget_type, ratio, Theta,
    L,
    sol, loss_now_hist, iter_step, gn_max_iter,      \* locals of GN_method
    temp,             \* local of GN_method: where the last solve was evaluated
    init_sol, max_iter, step_size, loss_hist, sol_vec, sol_sampled_pts,
    X_test, N_test, extended_sol,
    printed,          \* "[Error] ..." lines printed by the current / last call
    last,             \* the last method call and how it ended
    fcall, fout       \* a direct call of an assembly function and its outcome

pointVars == <<X_domain, X_boundary, N_domain, N_boundary, rhs_f, bdy_g>>

gramVars == <<kernel, kernel_parameter, nugget, nugget_type, ratio, Theta>>

gnLocals == <<sol, loss_now_hist, iter_step, gn_max_iter, temp>>

gnAttrs == <<init_sol, max_iter, step_size, loss_hist, sol_vec, sol_sampled_pts>>

extVars == <<X_test, N_test, extended_sol>>

fnVars == <<fcall, fout>>

vars == <<cls, nu, pc, exc, exit_status, calls, attrs, pointVars, gramVars, L, gnLocals,
          gnAttrs, extVars, printed, last, fnVars>>

NoMatrix == <<>>

NoSol == [src |-> "", len |-> 0, n |-> 0]

NoL == [st |-> "unset", of |-> NoMatrix]

\* sol_vec, sol_sampled_pts before a solver method has assigned them
NoVec == [sol |-> NoSol, len |-> 0, rows |-> <<>>]

\* extended_sol before extend_sol has assigned it
NoExtension == [Theta_test |-> NoMatrix, L |-> NoL, sol_vec |-> NoVec, solves |-> <<>>]

\* temp before the first pass of the loop: not bound
NoTemp == [hess |-> -1, lin |-> -1, grad |-> -1]

NoCall == [op |-> "", result |-> "", pd |-> TRUE, mode |-> ""]

NoFcall == [fn |-> "", eqn |-> "", kernel |-> "", X_domain |-> <<>>, X_boundary |-> <<>>, X_test |-> <<>>]

\* viscosities a Burgers object is constructed with: the default of __init__,
\* nu=0.2, and 0.02
Nus == {<<1, 5>>, <<1, 50>>}

\* a class without viscosity has no attribute nu
NoNu == <<0, 1>>

\* the default viscosity of __init__: nu=0.2
NuInit == <<1, 5>>

\* self.nu = nu in the __init__ of both Burgers classes. The object of src_new
\* is constructed with either value; the one of src, whose matrices are built
\* from blocks that hold no viscosity, with the default
NusOf(c) ==
    CASE c = "Burgers_new" -> Nus
      [] c = "Burgers" -> {NuInit}
      [] OTHER -> {NoNu}

\* the state after __init__: no attribute but the constructor's is assigned
Init ==
    /\ cls \in Classes
    /\ nu \in NusOf(cls)
    /\ pc = "idle" /\ exc = "" /\ exit_status = -1 /\ calls = 0
    /\ attrs = {}
    /\ X_domain = <<>> /\ X_boundary = <<>> /\ N_domain = 0 /\ N_boundary = 0
    /\ rhs_f = <<>> /\ bdy_g = <<>>
    /\ kernel = "" /\ kernel_parameter = 0 /\ nugget = 0 /\ nugget_type = ""
    /\ ratio = <<>> /\ Theta = NoMatrix
    /\ L = NoL
    /\ sol = NoSol /\ loss_now_hist = <<>> /\ iter_step = 0 /\ gn_max_iter = 0
    /\ temp = NoTemp
    /\ init_sol = NoSol /\ max_iter = 0 /\ step_size = 0 /\ loss_hist = <<>>
    /\ sol_vec = NoVec /\ sol_sampled_pts = NoVec
    /\ X_test = <<>> /\ N_test = 0 /\ extended_sol = NoExtension
    /\ printed = <<>>
    /\ last = NoCall
    /\ fcall = NoFcall /\ fout = ReturnedNone

\* a method can be called: the run has not ended and no call is in progress
CanCall == pc = "idle" /\ calls < MaxCalls

\* an exception leaves the method and, uncaught, ends the run with status 1
CrashIn(op, e, mode) ==
    /\ pc' = "crashed" /\ exc' = e /\ exit_status' = 1
    /\ last' = [op |-> op, result |-> "raise", pd |-> TRUE, mode |-> mode]

Crash(op, e) == CrashIn(op, e, "")

\* ------------------------------------------------------- get_sampled_points
\* interior points handed to get_sampled_points: N_domain distinct points
DomainSamples == {[i \in 1 .. n |-> i] : n \in 1 .. MaxN}

\* boundary points: any points, among them copies of interior points
BoundarySamples == UNION {[1 .. n -> Pts] : n \in 0 .. MaxNb}

get_sampled_points ==
    /\ CanCall
    /\ \E Xd \in DomainSamples, Xb \in BoundarySamples :
        /\ X_domain' = Xd /\ N_domain' = Len(Xd)
        /\ X_boundary' = Xb /\ N_boundary' = Len(Xb)
        /\ rhs_f' = [i \in 1 .. Len(Xd) |-> <<"rhs", Xd[i]>>]
        /\ bdy_g' = [i \in 1 .. Len(Xb) |-> <<"bdy", Xb[i]>>]
    /\ attrs' = attrs \cup {"X_domain", "N_domain", "X_boundary", "N_boundary", "rhs_f", "bdy_g"}
    /\ calls' = calls + 1
    /\ last' = [op |-> "get_sampled_points", result |-> "ok", pd |-> TRUE, mode |-> ""]
    /\ printed' = <<>>
    /\ UNCHANGED <<cls, nu, pc, exc, exit_status, gramVars, L, gnLocals, gnAttrs, extVars, fnVars>>

\* --------------------------------------------------------------- Gram_matrix
KernelParameters == {2}

PolicyTypes == {"adaptive", "identity", "none"}

\* self.ratio = ratio: assigned by the adaptive branch of Nonlinear_elliptic2d and
\* of both Burgers classes, not by Eikonal's
StoresRatio(c) == c # "Eikonal"

Gram_matrix ==
    /\ CanCall
    /\ calls' = calls + 1
    /\ printed' = <<>>
    /\ \E k \in Kernels, kp \in KernelParameters, ng \in Nuggets, nt \in NuggetTypes :
        IF "X_domain" \notin attrs
        THEN /\ Crash("Gram_matrix", "AttributeError")
             /\ UNCHANGED <<attrs, gramVars>>
        ELSE \E asm \in {AssemblyCall(cls, X_domain, X_boundary, k, kp)} :
                 IF asm.st # "ok"
                 THEN /\ Crash("Gram_matrix", IF asm.st = "raise" THEN asm.exc ELSE "TypeError")
                      /\ UNCHANGED <<attrs, gramVars>>
                 ELSE /\ nugget_type' = nt /\ nugget' = ng
                      /\ kernel' = k /\ kernel_parameter' = kp
                      /\ IF nt \in PolicyTypes
                         THEN /\ \E T \in {asm.val} :
                                    Theta' = Regularized(cls, T, N_domain, N_boundary, ng, nt)
                              /\ ratio' = IF nt = "adaptive" /\ StoresRatio(cls)
                                          THEN Ratios(cls, asm.val, N_domain) ELSE ratio
                              /\ attrs' = attrs \cup {"nugget_type", "nugget", "kernel",
                                                      "kernel_parameter", "Theta"}
                                                \cup (IF nt = "adaptive" /\ StoresRatio(cls)
                                                      THEN {"ratio"} ELSE {})
                         ELSE /\ UNCHANGED <<Theta, ratio>>
                              /\ attrs' = attrs \cup {"nugget_type", "nugget", "kernel",
                                                      "kernel_parameter"}
                      /\ last' = [op |-> "Gram_matrix", result |-> "ok", pd |-> TRUE, mode |-> ""]
                      /\ UNCHANGED <<pc, exc, exit_status>>
    /\ UNCHANGED <<cls, nu, pointVars, L, gnLocals, gnAttrs, extVars, fnVars>>

\* ------------------------------------------------------------- Gram_Cholesky
\* a matrix that is certainly not positive definite: an entry that is not finite,
\* a diagonal entry that is not positive, or two equal rows (duplicate points)
SurelyNotPD(T) ==
    \/ \E i \in 1 .. Len(T) : \E j \in 1 .. Len(T) : ~IsFinite(T[i][j])
    \/ \E i \in 1 .. Len(T) : T[i][i][1] <= 0
    \/ \E i \in 1 .. Len(T) : \E j \in 1 .. Len(T) : i # j /\ T[i] = T[j]

\* whether the factorization of T can succeed in floating point: never for a
\* matrix that is certainly not positive definite; for another matrix it succeeds
\* or not ("maybe nugget is too small"), depending on its conditioning
PDOutcomes(T) == IF SurelyNotPD(T) THEN {FALSE} ELSE {TRUE, FALSE}

\* what jnp.linalg.cholesky does with a matrix that is not positive definite:
\* it returns a factor filled with NaN, or it raises (a backend that reports
\* the failure)
FailureModes == {"nan", "raise"}

\* the factor of a positive definite matrix, named by the matrix it factors
Chol(T) == [st |-> "ok", of |-> T]

NanFactor(T) == [st |-> "nan", of |-> T]

\* the except branch of Gram_Cholesky: print the message, then sys.exit(), which
\* raises SystemExit with no status: the run ends with exit status 0
CholeskyExcept ==
    /\ printed' = <<"[Error] Cholesky factorization failed: maybe nugget is too small!">>
    /\ pc' = "exited" /\ exc' = "SystemExit" /\ exit_status' = 0
    /\ UNCHANGED <<L, attrs>>

Gram_Cholesky ==
    /\ CanCall
    /\ calls' = calls + 1
    /\ IF "Theta" \notin attrs
       THEN /\ CholeskyExcept
            /\ last' = [op |-> "Gram_Cholesky", result |-> "exit", pd |-> TRUE, mode |-> "AttributeError"]
       ELSE \E pd \in PDOutcomes(Theta), mode \in FailureModes :
            IF pd
            THEN /\ L' = Chol(Theta)
                 /\ attrs' = attrs \cup {"L"}
                 /\ printed' = <<>>
                 /\ last' = [op |-> "Gram_Cholesky", result |-> "ok", pd |-> TRUE, mode |-> ""]
                 /\ UNCHANGED <<pc, exc, exit_status>>
            ELSE IF mode = "nan"
            THEN /\ L' = NanFactor(Theta)
                 /\ attrs' = attrs \cup {"L"}
                 /\ printed' = <<>>
                 /\ last' = [op |-> "Gram_Cholesky", result |-> "ok", pd |-> FALSE, mode |-> "nan"]
                 /\ UNCHANGED <<pc, exc, exit_status>>
            ELSE /\ CholeskyExcept
                 /\ last' = [op |-> "Gram_Cholesky", result |-> "exit", pd |-> FALSE, mode |-> "raise"]
    /\ UNCHANGED <<cls, nu, pointVars, gramVars, gnLocals, gnAttrs, extVars, fnVars>>

\* ----------------------------------------------------------------- GN_method
MaxIters == 0 .. MaxIter

\* the class of the value self.loss(z) returns: NaN when the factor is NaN;
\* otherwise finite, NaN or +inf (a sum of squares that overflows), depending on z
LossOutcomes(l) == IF l.st = "nan" THEN {"nan"} ELSE LossClasses

\* the check each GN_method makes on a loss value: jnp.isnan(loss_now)
IsNanCheck(c) == c = "nan"

NanMessage(step) == <<"[Error] Loss is nan: maybe nugget is too small!", step>>

\* what is printed for the loss of step `step`
Diagnostic(step, c) == IF IsNanCheck(c) THEN <<NanMessage(step)>> ELSE <<>>

\* sol = random.normal(0.0, 1.0, (k * self.N_domain)), the only assignment of sol
\* before the loop: it is made when initial_sol == "rdm" and not otherwise
InitialSolBound(initial_sol) == initial_sol = "rdm"

\* the head of a solver method, up to the first line of the loop: draw sol,
\* record init_sol, evaluate and append the initial loss. The loss solves
\* self.L against the stacked vector: jnp.linalg.solve raises ValueError when
\* the factor has another dimension than the vector has entries
GN_begin(method) ==
    /\ CanCall
    /\ calls' = calls + 1
    /\ \E mi \in MaxIters, initial_sol \in InitialSols :
        IF InitialSolBound(initial_sol) /\ "N_domain" \notin attrs
        THEN /\ CrashIn(method, "AttributeError", initial_sol)
             /\ printed' = <<>>
             /\ UNCHANGED <<attrs, gnLocals, init_sol>>
        ELSE IF ~InitialSolBound(initial_sol)
        THEN /\ CrashIn(method, "UnboundLocalError", initial_sol)
             /\ printed' = <<>>
             /\ UNCHANGED <<attrs, gnLocals, init_sol>>
        ELSE LET s0 == [src |-> "normal", len |-> DrawLen(method, cls, N_domain), n |-> 0]
             IN  /\ init_sol' = s0
                 /\ attrs' = attrs \cup {"init_sol"}
                 /\ IF "L" \notin attrs
                    THEN /\ CrashIn(method, "AttributeError", initial_sol)
                         /\ printed' = <<>>
                         /\ UNCHANGED gnLocals
                    ELSE IF Len(L.of) # Len(LossVectorOf(method, cls, N_domain, N_boundary))
                    THEN /\ CrashIn(method, "ValueError", initial_sol)
                         /\ printed' = <<>>
                         /\ UNCHANGED gnLocals
                    ELSE \E c \in LossOutcomes(L) :
                         /\ sol' = s0
                         /\ loss_now_hist' = <<[at |-> s0.n, cls |-> c]>>
                         /\ printed' = Diagnostic(0, c)
                         /\ iter_step' = 1
                         /\ gn_max_iter' = mi
                         /\ temp' = NoTemp
                         /\ pc' = "gn"
                         /\ last' = [op |-> method, result |-> "running", pd |-> TRUE, mode |-> initial_sol]
                         /\ UNCHANGED <<exc, exit_status>>
    /\ UNCHANGED <<cls, nu, pointVars, gramVars, L, max_iter, step_size, loss_hist, sol_vec,
                   sol_sampled_pts, extVars, fnVars>>

\* the head of GN_method, which every class has
GN_method_begin == GN_begin("GN_method")

\* the head of GN_relaxed_method, which only Nonlinear_elliptic2d has
GN_relaxed_method_begin ==
    /\ cls = "Nonlinear_elliptic2d"
    /\ GN_begin("GN_relaxed_method")

\* a loop over range(1, max_iter), which makes one pass fewer
LoopStopsEarly(step, mi) == step < mi

\* for iter_step in range(1, max_iter + 1): whether the loop body runs once more
LoopContinues(step, mi) == step <= mi

\* a solve whose Hessian stays linearized at the initial iterate:
\* solve(Hessian_GN(sol, init_sol), grad_loss(sol))
NewtonDirectionFrozen(c, s) == [hess |-> s.n, lin |-> 0, grad |-> s.n]

\* temp = jnp.linalg.solve(self.Hessian_GN(sol), self.grad_loss(sol)) in both
\* Burgers classes, solve(self.Hessian_GN(sol, sol), self.grad_loss(sol)) in the
\* elliptic and Eikonal classes: the iterate (by its index) at which the Hessian
\* is evaluated, at which it is linearized (z_old), and at which the gradient is
\* evaluated
NewtonDirection(c, s) ==
    CASE c \in {"Burgers", "Burgers_new"} -> [hess |-> s.n, lin |-> s.n, grad |-> s.n]
      [] c \in {"Nonlinear_elliptic2d", "Eikonal"} -> [hess |-> s.n, lin |-> s.n, grad |-> s.n]

\* sol = sol - step_size * temp
Update(s) == [s EXCEPT !.n = @ + 1]

\* a loop body that ends with `if jnp.isnan(loss_now): break`
NextStepBreakOnNan(step, mi, c) == IF c = "nan" THEN mi + 1 ELSE step + 1

\* the value of iter_step for the next pass: the for statement advances it by
\* one; the body has no break, continue or return, whatever the loss is
NextStep(step, mi, c) == step + 1

\* one pass of the loop body: update sol, evaluate the loss, check it, append it
GN_iterate ==
    /\ pc = "gn"
    /\ LoopContinues(iter_step, gn_max_iter)
    /\ \E c \in LossOutcomes(L) :
        /\ temp' = NewtonDirection(cls, sol)
        /\ sol' = Update(sol)
        /\ loss_now_hist' = Append(loss_now_hist, [at |-> sol'.n, cls |-> c])
        /\ printed' = printed \o Diagnostic(iter_step, c)
        /\ iter_step' = NextStep(iter_step, gn_max_iter, c)
    /\ UNCHANGED <<cls, nu, pc, exc, exit_status, calls, attrs, pointVars, gramVars, L,
                   gn_max_iter, gnAttrs, extVars, last, fnVars>>

\* number of rows of the stacked vector sol_vec
SolVecLen(c, N, Nb) ==
    CASE c = "Nonlinear_elliptic2d" -> N + N + Nb
      [] c = "Burgers" -> N + N + N + N + Nb
      [] c = "Eikonal" -> N + N + N + N + Nb
      [] c = "Burgers_new" -> N + N + N + Nb

\* a tail of GN_method that also drops the factor (self.L = None)
GN_finishDropsFactor ==
    /\ pc = "gn"
    /\ ~LoopContinues(iter_step, gn_max_iter)
    /\ max_iter' = gn_max_iter
    /\ step_size' = 1
    /\ loss_hist' = loss_now_hist
    /\ sol_vec' = [sol |-> sol, len |-> SolVecLen(cls, N_domain, N_boundary),
                    rows |-> SolVecRows(last.op, cls, N_domain, N_boundary)]
    /\ sol_sampled_pts' = [sol |-> sol, len |-> N_domain,
                            rows |-> SampledPts(last.op, cls, N_domain)]
    /\ attrs' = attrs \cup {"max_iter", "step_size", "loss_hist", "sol_vec", "sol_sampled_pts"}
    /\ pc' = "idle"
    /\ last' = [last EXCEPT !.result = "ok"]
    /\ L' = NoL
    /\ UNCHANGED <<cls, nu, exc, exit_status, calls, pointVars, gramVars, gnLocals, init_sol,
                   extVars, printed, fnVars>>

\* the tail of GN_method, after the loop: the attributes it assigns
GN_finish ==
    /\ pc = "gn"
    /\ ~LoopContinues(iter_step, gn_max_iter)
    /\ max_iter' = gn_max_iter
    /\ step_size' = 1
    /\ loss_hist' = loss_now_hist
    /\ sol_vec' = [sol |-> sol, len |-> SolVecLen(cls, N_domain, N_boundary),
                    rows |-> SolVecRows(last.op, cls, N_domain, N_boundary)]
    /\ sol_sampled_pts' = [sol |-> sol, len |-> N_domain,
                            rows |-> SampledPts(last.op, cls, N_domain)]
    /\ attrs' = attrs \cup {"max_iter", "step_size", "loss_hist", "sol_vec", "sol_sampled_pts"}
    /\ pc' = "idle"
    /\ last' = [last EXCEPT !.result = "ok"]
    /\ UNCHANGED <<cls, nu, exc, exit_status, calls, pointVars, gramVars, L, gnLocals, init_sol,
                   extVars, printed, fnVars>>

\* ---------------------------------------------------------------- extend_sol
TestSamples == {<<p>> : p \in Pts}

\* temp = jnp.linalg.solve(jnp.transpose(self.L), jnp.linalg.solve(self.L,
\* self.sol_vec)); self.extended_sol = jnp.matmul(Theta_test, temp): the product,
\* by its factors and the matrices solved with, innermost first
Extension(tt, l, sv) ==
    [Theta_test |-> tt, L |-> l, sol_vec |-> sv, solves |-> <<"L", "transpose(L)">>]

extend_sol ==
    /\ CanCall
    /\ calls' = calls + 1
    /\ printed' = <<>>
    /\ \E Xt \in TestSamples :
        IF ~({"X_domain", "kernel"} \subseteq attrs)
        THEN /\ Crash("extend_sol", "AttributeError")
             /\ UNCHANGED <<attrs, extVars>>
        ELSE \E tt \in {ThetaTestCall(cls, Xt, X_domain, X_boundary, kernel, kernel_parameter)} :
                 IF tt.st = "raise"
                 THEN /\ Crash("extend_sol", tt.exc)
                      /\ UNCHANGED <<attrs, extVars>>
                 ELSE IF ~({"L", "sol_vec"} \subseteq attrs)
                 THEN /\ Crash("extend_sol", "AttributeError")
                      /\ UNCHANGED <<attrs, extVars>>
                 ELSE IF Len(L.of) # sol_vec.len
                 THEN /\ Crash("extend_sol", "ValueError")
                      /\ UNCHANGED <<attrs, extVars>>
                 ELSE IF tt.st = "none" \/ Len(tt.val[1]) # sol_vec.len
                 THEN /\ Crash("extend_sol", "TypeError")
                      /\ X_test' = Xt /\ N_test' = Len(Xt)
                      /\ attrs' = attrs \cup {"X_test", "N_test"}
                      /\ UNCHANGED extended_sol
                 ELSE /\ X_test' = Xt /\ N_test' = Len(Xt)
                      /\ extended_sol' = Extension(tt.val, L, sol_vec)
                      /\ attrs' = attrs \cup {"X_test", "N_test", "extended_sol"}
                      /\ last' = [op |-> "extend_sol", result |-> "ok", pd |-> TRUE, mode |-> ""]
                      /\ UNCHANGED <<pc, exc, exit_status>>
    /\ UNCHANGED <<cls, nu, pointVars, gramVars, L, gnLocals, gnAttrs, fnVars>>

\* --------------------------------------------------------- the specification
Next ==
    \/ get_sampled_points
    \/ Gram_matrix
    \/ Gram_Cholesky
    \/ GN_method_begin
    \/ GN_relaxed_method_begin
    \/ GN_iterate
    \/ GN_finish
    \/ extend_sol

Spec == Init /\ [][Next]_vars

\* ------------------------------------- the assembly functions called directly
\* a caller outside the classes calls Gram_matrix_assembly of src_new with any
\* PDE tag and kernel tag
call_Gram_matrix_assembly ==
    \E Xd \in DomainSamples, Xb \in BoundarySamples, e \in Eqns, k \in KernelTags :
        /\ fcall' = [fn |-> "Gram_matrix_assembly", eqn |-> e, kernel |-> k,
                     X_domain |-> Xd, X_boundary |-> Xb, X_test |-> <<>>]
        /\ fout' = Gram_matrix_assembly(Xd, Xb, e, k, 2, NuDefault)
        /\ UNCHANGED <<cls, nu, pc, exc, exit_status, calls, attrs, pointVars, gramVars, L,
                       gnLocals, gnAttrs, extVars, printed, last>>

\* a caller outside the classes calls construct_Theta_test of src_new
call_construct_Theta_test ==
    \E Xt \in TestSamples, Xd \in DomainSamples, Xb \in BoundarySamples, e \in Eqns, k \in KernelTags :
        /\ fcall' = [fn |-> "construct_Theta_test", eqn |-> e, kernel |-> k,
                     X_domain |-> Xd, X_boundary |-> Xb, X_test |-> Xt]
        /\ fout' = construct_Theta_test(Xt, Xd, Xb, e, k, 2, NuDefault)
        /\ UNCHANGED <<cls, nu, pc, exc, exit_status, calls, attrs, pointVars, gramVars, L,
                       gnLocals, gnAttrs, extVars, printed, last>>

\* largest N_domain of an object whose Hessian_GN is called directly
MaxHessN == 2

\* a caller calls Hessian_GN of a Burgers object that holds N_domain interior
\* and N_boundary boundary points
call_Hessian_GN ==
    \E c \in {"Burgers", "Burgers_new"}, n \in 1 .. MaxHessN, Xb \in BoundarySamples :
        /\ fcall' = [fn |-> "Hessian_GN", eqn |-> c, kernel |-> "",
                     X_domain |-> [i \in 1 .. n |-> i], X_boundary |-> Xb, X_test |-> <<>>]
        /\ fout' = Returned(Hessian_GN(c, n, Len(Xb)))
        /\ UNCHANGED <<cls, nu, pc, exc, exit_status, calls, attrs, pointVars, gramVars, L,
                       gnLocals, gnAttrs, extVars, printed, last>>

NextAsm ==
    \/ call_Gram_matrix_assembly
    \/ call_construct_Theta_test
    \/ call_Hessian_GN

SpecAsm == Init /\ [][NextAsm]_vars

\* ---------------------------------------------------- the Cholesky factor L
\* C1: whenever GN_method runs or extend_sol has run, self.L is the Cholesky
\* factor of the current self.Theta: no solve and no extension uses a factor
\* that was computed from an earlier Theta.
C1_FactorOfCurrentTheta ==
    /\ pc = "gn" => L.of = Theta
    /\ (last.op = "extend_sol" /\ last.result = "ok") => extended_sol.L.of = Theta

\* the run in which the factor is stale: Gram_matrix has replaced Theta after
\* Gram_Cholesky, and GN_method evaluates its loss with the factor of the old one
C1_StaleFactorRead ==
    /\ pc = "gn"
    /\ L.st = "ok"
    /\ L.of # Theta

\* C2: if the factorization in Gram_Cholesky fails, the run is aborted at that
\* point: the failed call does not assign self.L, and no Gauss-Newton iteration
\* is executed afterwards in that run.
C2_FailedFactorizationAborts ==
    /\ (last.op = "Gram_Cholesky" /\ ~last.pd) => (pc \in {"exited", "crashed"} /\ L.st # "nan")
    /\ pc = "gn" => L.st = "ok"

\* the run in which Gauss-Newton iterates on the factor of a failed factorization
C2_IteratesAfterFailure ==
    /\ pc = "gn"
    /\ L.st = "nan"
    /\ sol.n >= 1

\* C3: Gram_Cholesky on a Theta that is not positive definite raises a dedicated
\* non-positive-definite factorization error that reaches the caller as an error
\* outcome: it never completes normally with a degenerate factor stored in
\* self.L, and it never ends the run with a success outcome.
C3_NotPositiveDefiniteRaises ==
    (last.op = "Gram_Cholesky" /\ ~last.pd) =>
        /\ exc = "NonPositiveDefiniteFactorizationError"
        /\ exit_status > 0
        /\ L.st # "nan"

\* the call on a Theta with two equal rows (duplicate collocation points, nugget
\* 0) that ends the run with exit status 0
C3_ExitsWithSuccess ==
    /\ last.op = "Gram_Cholesky" /\ ~last.pd
    /\ SurelyNotPD(Theta)
    /\ exc = "SystemExit"
    /\ exit_status = 0

\* ------------------------------------------------------ the Gauss-Newton loop
\* the run with the scheduling of a sequential program: a started GN_method
\* keeps executing its loop and its tail
SpecFair == Spec /\ WF_vars(GN_iterate) /\ WF_vars(GN_finish)

\* the entries of a loss history are the losses of the iterates 0, 1, 2, ... in
\* this order
InUpdateOrder(h) == \A i \in 1 .. Len(h) : h[i].at = i - 1

\* C4: after GN_method(max_iter = k) completes, loss_hist has exactly k + 1
\* entries: entry 0 is the loss of the initial solution and entry i the loss of
\* the iterate obtained after the i-th update, appended after that update and
\* before the next update starts.
C4_LossHistory ==
    /\ "loss_hist" \in attrs =>
        /\ Len(loss_hist) = max_iter + 1
        /\ InUpdateOrder(loss_hist)
    /\ pc = "gn" =>
        /\ Len(loss_now_hist) = sol.n + 1
        /\ InUpdateOrder(loss_now_hist)

\* a completed GN_method(max_iter = 2) with its three recorded losses
C4_TwoUpdatesRecorded ==
    /\ pc = "idle" /\ last.op = "GN_method" /\ last.result = "ok"
    /\ max_iter = 2
    /\ Len(loss_hist) = 3
    /\ sol_vec.sol.n = 2

\* C5: a started GN_method always terminates after exactly max_iter updates of
\* the solution, whatever the loss values are: no early stop, and a NaN loss at
\* the initial point or at an iteration is appended and does not stop, skip or
\* repeat an iteration.
C5_FixedBudget ==
    /\ [](pc = "gn" =>
            /\ sol.n = iter_step - 1
            /\ Len(loss_now_hist) = iter_step
            /\ iter_step <= gn_max_iter + 1)
    /\ []("sol_vec" \in attrs =>
            /\ sol_vec.sol.n = max_iter
            /\ Len(loss_hist) = max_iter + 1)
    /\ \A k \in MaxIters :
        (pc = "gn" /\ gn_max_iter = k) ~>
            (pc = "idle" /\ last.result = "ok" /\ max_iter = k /\ sol_vec.sol.n = k)

\* a completed GN_method(max_iter = 2) whose initial loss and whose loss after
\* the first update were NaN
C5_NanDidNotStop ==
    /\ pc = "idle" /\ last.op = "GN_method" /\ last.result = "ok"
    /\ max_iter = 2
    /\ sol_vec.sol.n = 2
    /\ loss_hist[1].cls = "nan"
    /\ loss_hist[2].cls = "nan"
    /\ loss_hist[3].cls = "finite"

\* the steps (0 = the initial evaluation) for which a diagnostic has been printed
\* by the GN_method in progress
Surfaced == {printed[m][2] : m \in 1 .. Len(printed)}

\* C6: at every step of GN_method (the initial evaluation and each iteration) at
\* which the loss is not finite (NaN, +infinity or -infinity), the solver
\* surfaces the condition for that step before the next iteration begins.
C6_NonFiniteLossSurfaced ==
    pc = "gn" =>
        \A i \in 1 .. Len(loss_now_hist) :
            loss_now_hist[i].cls # "finite" => (i - 1) \in Surfaced

\* the run in which the loss after the first update is +infinity and nothing is
\* printed for it
C6_InfiniteLossSilent ==
    /\ pc = "gn"
    /\ Len(loss_now_hist) = 2
    /\ loss_now_hist[2].cls = "posinf"
    /\ printed = <<>>

\* the PDE tags for which each assembly function of src_new builds a matrix
BuiltEqns(fn) ==
    IF fn = "Gram_matrix_assembly" THEN {"Burgers"} ELSE {"Nonlinear_elliptic", "Burgers"}

\* C7: Gram_matrix_assembly and construct_Theta_test fail immediately with an
\* error for every PDE tag and every kernel tag outside the supported set: for no
\* unsupported combination do they complete normally and hand a result (a zero
\* matrix, or no matrix at all) back to the caller.
C7_UnsupportedCombinationFails ==
    (fcall.fn # "" /\ ~(fcall.eqn \in BuiltEqns(fcall.fn) /\ fcall.kernel \in SupportedKernels))
        => fout.st = "raise"

\* the call with a PDE tag of no family ("Poisson") and a supported kernel that
\* completes normally and returns None
C7_ReturnsNone ==
    /\ fcall.fn = "Gram_matrix_assembly"
    /\ fcall.eqn = "Poisson"
    /\ fcall.kernel = "Gaussian"
    /\ fout.st = "none"

\* C8: GN_method starts from a SolutionVector in both modes: with the random
\* draw, from a standard-normal vector whose length is the number of unknowns
\* that loss slices; with a supplied initial value, from that supplied vector.
C8_StartsInBothModes ==
    (last.op = "GN_method" /\ last.mode \in InitialSols /\ {"N_domain", "L"} \subseteq attrs) =>
        /\ last.result # "raise"
        /\ init_sol.len = LossUnknowns(cls, N_domain)
        /\ init_sol.src = (IF last.mode = "rdm" THEN "normal" ELSE "supplied")

\* the call with a supplied initial value on an object that has its points and
\* its factor, which ends with UnboundLocalError
C8_SuppliedModeCrashes ==
    /\ last.op = "GN_method" /\ last.mode = "supplied"
    /\ {"N_domain", "L"} \subseteq attrs
    /\ L.st = "ok"
    /\ exc = "UnboundLocalError"

\* --------------------------------------------------------- the adaptive nugget
\* the matrix the assembly function returned to the last Gram_matrix call
Assembled == AssemblyCall(cls, X_domain, X_boundary, kernel, kernel_parameter).val

\* the last call was a Gram_matrix with the adaptive policy that returned
AdaptiveDone ==
    /\ last.op = "Gram_matrix" /\ last.result = "ok"
    /\ nugget_type = "adaptive"

\* the diagonal of block k of Theta is that of T increased by nugget * r
BlockRaisedBy(T, k, N, r) ==
    \A i \in ((k - 1) * N + 1) .. (k * N) :
        Theta[i][i] = FAdd(T[i][i], FMul(FInt(nugget), r))

\* C9: in the adaptive policy of Burgers.Gram_matrix the diagonal of each
\* derivative block k is increased by nugget * trace(block k) / trace(reference
\* block), the reference block being exactly the index range that receives the
\* unscaled nugget * 1: the value block on the last N_domain + N_boundary indices.
C9_ReferenceIsValueBlock ==
    (cls \in {"Burgers", "Burgers_new"} /\ AdaptiveDone) =>
        \E T \in {Assembled} :
            LET N == N_domain
                first == NumRatios(cls) * N
            IN  /\ Len(T) - first = N_domain + N_boundary
                /\ \A k \in 1 .. NumRatios(cls) :
                    BlockRaisedBy(T, k, N,
                                  FQuot(Trace(T, (k - 1) * N, k * N), Trace(T, first, Len(T))))
                /\ \A i \in (first + 1) .. Len(T) :
                    Theta[i][i] = FAdd(T[i][i], FInt(nugget))

\* the Burgers class of src_new after an adaptive Gram_matrix with nugget 1 on
\* one interior and one boundary point: the denominator it used is the trace of
\* the boundary rows alone
C9_BoundaryOnlyDenominator ==
    /\ cls = "Burgers_new" /\ AdaptiveDone
    /\ nugget = 1 /\ N_domain = 1 /\ N_boundary = 1
    /\ \E T \in {Assembled} :
        /\ ratio[1] = FQuot(Trace(T, 0, 1), Trace(T, 3, 4))
        /\ ratio[1] # FQuot(Trace(T, 0, 1), Trace(T, 2, 4))

\* C10 (as the classes compute it): in the adaptive policy the scaling ratio
\* applied to the diagonal of a derivative block equals trace(that block) /
\* trace(reference), the reference trace being the one the class takes:
\* trace(Theta[N:, N:]) in Nonlinear_elliptic2d, trace(Theta[3N:, 3N:]) in both
\* Burgers classes and in Eikonal.
C10_RatioIsBlockOverReference ==
    AdaptiveDone =>
        \E T \in {Assembled} :
            \A k \in 1 .. NumRatios(cls) :
                BlockRaisedBy(T, k, N_domain,
                              FQuot(Trace(T, (k - 1) * N_domain, k * N_domain),
                                    Trace(T, RefStart(cls, N_domain), Len(T))))

\* C10 (as stated): the scaling ratio applied to the diagonal of a block equals
\* trace(reference_block) / trace(that_block), for every derivative block of
\* every PDE family's Gram_matrix.
C10_RatioIsReferenceOverBlock ==
    AdaptiveDone =>
        \E T \in {Assembled} :
            \A k \in 1 .. NumRatios(cls) :
                BlockRaisedBy(T, k, N_domain,
                              FQuot(Trace(T, RefStart(cls, N_domain), Len(T)),
                                    Trace(T, (k - 1) * N_domain, k * N_domain)))

\* an adaptive Gram_matrix with nugget 1 whose first block has a trace different
\* from the reference trace, both finite and not zero
C10_ScaledBlock ==
    /\ AdaptiveDone /\ nugget = 1
    /\ \E T \in {Assembled} :
        LET b == Trace(T, 0, N_domain)
            r == Trace(T, RefStart(cls, N_domain), Len(T))
        IN  /\ IsFinite(b) /\ IsFinite(r) /\ b[1] # 0 /\ r[1] # 0 /\ b # r
            /\ Theta[1][1] = FAdd(T[1][1], FQuot(b, r))

\* ------------------------------------------------- what Gram_matrix changes
\* the last call was a Gram_matrix with one of the three policies that returned
PolicyDone ==
    /\ last.op = "Gram_matrix" /\ last.result = "ok"
    /\ nugget_type \in PolicyTypes

\* C11: Gram_matrix changes only diagonal entries of the assembled matrix: with
\* 'none' Theta is the assembled matrix, with 'identity' it is the assembled
\* matrix plus nugget times an identity of exactly its dimension, with
\* 'adaptive' the added diagonal vector has exactly its dimension; every
\* off-diagonal entry is left unchanged in all three policies.
C11_OnlyDiagonalChanged ==
    PolicyDone =>
        \E T \in {Assembled} :
            /\ Len(Theta) = Len(T)
            /\ \A i \in 1 .. Len(T) :
                /\ Len(Theta[i]) = Len(T[i])
                /\ \A j \in 1 .. Len(T) : i # j => Theta[i][j] = T[i][j]
            /\ nugget_type = "none" => Theta = T
            /\ nugget_type = "identity" =>
                /\ EyeSize(cls, N_domain, N_boundary) = Len(T)
                /\ \A i \in 1 .. Len(T) : Theta[i][i] = FAdd(T[i][i], FInt(nugget))
            /\ nugget_type = "adaptive" =>
                Len(AdaptiveTemp(cls, T, N_domain, N_boundary)) = Len(T)

\* Gram_matrix(nugget = 1, nugget_type = 'identity') of the src_new Burgers class
\* on one interior and one boundary point: a 4 x 4 matrix with a raised diagonal
C11_IdentityAdded ==
    /\ PolicyDone /\ cls = "Burgers_new"
    /\ nugget_type = "identity" /\ nugget = 1
    /\ N_domain = 1 /\ N_boundary = 1
    /\ Len(Theta) = 4
    /\ \E T \in {Assembled} : Theta[4][4] = FAdd(T[4][4], FInt(1)) /\ Theta[1][4] = T[1][4]

\* ------------------------------------------- the blocks of the Burgers matrix
\* rows (columns) of block b of the 3 x 3 partition: [0, N), [N, 2N), [2N, 3N + Nb)
BlockLo(b, N) == b * N

BlockHi(b, N, Nb) == IF b = 2 THEN 3 * N + Nb ELSE (b + 1) * N

\* the block of the partition that index a (1-based) lies in
BlockOf(a, N) == IF a <= N THEN 0 ELSE IF a <= 2 * N THEN 1 ELSE 2

\* the direct call returned the Burgers Gram matrix
BurgersAssembled ==
    /\ fcall.fn = "Gram_matrix_assembly"
    /\ fcall.eqn = "Burgers"
    /\ fout.st = "ok"

\* C12: in Gram_matrix_assembly (eqn 'Burgers'), for every pair of distinct
\* blocks i < j of the 3 x 3 partition the kernel values of the cross block are
\* computed once, written at block (i, j) and their transpose at block (j, i);
\* hence Theta[a, b] = Theta[b, a] for every entry of an off-diagonal block.
C12_CrossBlocksMirrored ==
    BurgersAssembled =>
        LET N == Len(fcall.X_domain)
            Nb == Len(fcall.X_boundary)
            W == BurgersWrites(N, Nb)
            writesAt(i, j, tr) ==
                {k \in 1 .. Len(W) :
                    /\ W[k].r0 = BlockLo(i, N) /\ W[k].r1 = BlockHi(i, N, Nb)
                    /\ W[k].c0 = BlockLo(j, N) /\ W[k].c1 = BlockHi(j, N, Nb)
                    /\ W[k].tr = tr}
        IN  /\ \A i \in 0 .. 2 : \A j \in 0 .. 2 :
                i < j =>
                    /\ Cardinality(writesAt(i, j, FALSE)) = 1
                    /\ Cardinality(writesAt(j, i, TRUE)) = 1
                    /\ writesAt(i, j, TRUE) = {} /\ writesAt(j, i, FALSE) = {}
                    /\ \A k \in writesAt(i, j, FALSE) : \A m \in writesAt(j, i, TRUE) :
                        W[k].v = W[m].v /\ k < m
            /\ \A a \in 1 .. Len(fout.val) : \A b \in 1 .. Len(fout.val) :
                BlockOf(a, N) # BlockOf(b, N) => fout.val[a][b] = fout.val[b][a]

\* the Burgers matrix of one interior and one other boundary point: the entries
\* of the cross blocks are not zero and not all equal
C12_CrossBlockFilled ==
    /\ BurgersAssembled
    /\ fcall.X_domain = <<1>> /\ fcall.X_boundary = <<2>>
    /\ fout.val[1][4] = fout.val[4][1]
    /\ fout.val[2][4] = fout.val[4][2]
    /\ fout.val[1][4] # FInt(0)
    /\ fout.val[1][4] # fout.val[2][4]

\* ------------------------------------------------------------------ the frame
\* the step is a call of method op (a call that raises included)
Called(op) == calls' = calls + 1 /\ last'.op = op

\* the step belongs to GN_method: its head, a pass of its loop or its tail
GN_methodStep == Called("GN_method") \/ Called("GN_relaxed_method") \/ pc = "gn"

\* the step is the tail of GN_method, which returns to the caller
GN_methodReturns == pc = "gn" /\ pc' = "idle"

\* C13: once the points are sampled, X_domain, X_boundary, N_domain, N_boundary,
\* rhs_f and bdy_g are left unchanged by Gram_matrix, Gram_Cholesky, GN_method
\* and extend_sol; Theta and L are left unchanged by GN_method and extend_sol;
\* sol_vec is written only by the Gauss-Newton solver and is left unchanged by
\* extend_sol.
C13_Frame ==
    [][ /\ (Called("Gram_matrix") \/ Called("Gram_Cholesky") \/ GN_methodStep
              \/ Called("extend_sol")) => UNCHANGED pointVars
        /\ (GN_methodStep \/ Called("extend_sol")) => UNCHANGED <<Theta, L>>
        /\ Called("extend_sol") => UNCHANGED sol_vec
        /\ sol_vec' # sol_vec => GN_methodReturns ]_vars

\* the whole pipeline has run on sampled points: extend_sol has returned, having
\* read the sol_vec, the factor and the points that the earlier calls left
C13_PipelineRan ==
    /\ last.op = "extend_sol" /\ last.result = "ok"
    /\ {"Theta", "L", "sol_vec", "extended_sol"} \subseteq attrs
    /\ X_domain # <<>> /\ rhs_f # <<>> /\ bdy_g # <<>>
    /\ N_domain = Len(X_domain) /\ N_boundary = Len(X_boundary)
    /\ extended_sol.sol_vec = sol_vec /\ extended_sol.L = L
    /\ L.of = Theta

\* ------------------------------------------- extension at collocation points
\* row t of the cross-covariance stored by extend_sol equals the row of the
\* un-regularized Gram matrix that belongs to the value of the field at the i-th
\* point of (interior, boundary), wherever the query point is that point
RowsAgree ==
    \E T \in {Assembled} :
        \A t \in 1 .. Len(X_test) : \A i \in 1 .. N_domain + N_boundary :
            X_test[t] = Xdb(X_domain, X_boundary)[i] =>
                extended_sol.Theta_test[t] = T[NumRatios(cls) * N_domain + i]

\* the factor extend_sol solved with is the factor of a regularization of the
\* Gram matrix of the current points and kernel
FactorOfAssembled ==
    /\ extended_sol.L.st = "ok"
    /\ \E T \in {Assembled} :
        \E ng \in Nuggets, nt \in PolicyTypes :
            extended_sol.L.of = Regularized(cls, T, N_domain, N_boundary, ng, nt)

extend_solDone == last.op = "extend_sol" /\ last.result = "ok"

\* C14: for a query point equal to the i-th point of the concatenated (interior,
\* boundary) collocation set, the row of the cross-covariance built by
\* construct_Theta_test equals row (value-block offset + i) of the un-regularized
\* Gram matrix (the kernel being symmetric); so extend_sol at the collocation
\* points reproduces the value block of sol_vec up to the nugget, which needs
\* the factor it solves with to be that of the regularized Gram matrix.
C14_ExtensionReproduces ==
    extend_solDone => RowsAgree /\ FactorOfAssembled

\* extend_sol has returned for a query point that is a collocation point, the
\* rows agree, and the factor is a NaN factor left by a failed factorization
C14_ExtendedWithNanFactor ==
    /\ extend_solDone
    /\ cls = "Burgers_new"
    /\ X_test = <<2>> /\ X_domain = <<1>> /\ X_boundary = <<2>>
    /\ RowsAgree
    /\ extended_sol.L.st = "nan"

\* the part that holds in every run: after every extend_sol the rows of the
\* cross-covariance at collocation points are the value-block rows of the
\* un-regularized Gram matrix
RowsAgreeAfterExtension == extend_solDone => RowsAgree

\* ------------------------------------------------- the Gauss-Newton iteration
\* C15: in every iteration k of GN_method the Gauss-Newton Hessian and the
\* gradient are both evaluated at the current iterate z_(k-1), which is also the
\* linearization point; the update makes z_k from z_(k-1), and iteration k+1
\* reads only z_k: no iteration uses an iterate or a linearization point of an
\* earlier step.
C15_CurrentIterateOnly ==
    (last.op \in {"GN_method", "GN_relaxed_method"} /\ last.result \in {"running", "ok"}) =>
        /\ temp = NoTemp => sol.n = 0
        /\ temp # NoTemp =>
            /\ sol.n >= 1
            /\ temp.hess = sol.n - 1
            /\ temp.lin = sol.n - 1
            /\ temp.grad = sol.n - 1
        /\ pc = "gn" => iter_step = sol.n + 1
        /\ sol.src = init_sol.src /\ sol.len = init_sol.len

\* the second iteration has run: it read the first iterate, and only it
C15_SecondIterationRan ==
    /\ pc = "gn"
    /\ sol.n = 2
    /\ temp = [hess |-> 1, lin |-> 1, grad |-> 1]

\* ------------------------------------------------------- the Hessian's factor
\* a sequence without the entries equal to k
Without(zs, k) == SelectSeq(zs, LAMBDA x : x # k)

\* the partial derivative with respect to z[k] of an entry whose terms have power
\* 1 and name each z index at most once: the terms that name z[k], without it
Partial(entry, k) ==
    {[m EXCEPT !.z = Without(m.z, k)] : m \in {t \in entry : \E a \in 1 .. Len(t.z) : t.z[a] = k}}

Hessian_GNCalled == fcall.fn = "Hessian_GN" /\ fout.st = "ok"

\* C16: Burgers.Hessian_GN(z) is 2 * J^T (L L^T)^-1 J, computed as
\* 2 * (L^-1 mtx)^T (L^-1 mtx), where mtx is the Jacobian with respect to z of
\* the stacked vector that Burgers.loss(z) whitens: every entry of mtx is the
\* partial derivative of that row of the loss's vector with respect to that entry
\* of z (row blocks in the order and at the offsets of loss, boundary rows zero),
\* in the 3-block layout of src_new and the 4-block layout of src.
C16_HessianIsJacobianForm ==
    Hessian_GNCalled =>
        LET c == fcall.eqn
            N == Len(fcall.X_domain)
            Nb == Len(fcall.X_boundary)
            vv == LossVector(c, N, Nb)
            H == fout.val
        IN  /\ H.scale = 2
            /\ H.left.transposed /\ ~H.right.transposed
            /\ H.left.solved_with = "L" /\ H.right.solved_with = "L"
            /\ H.left.mtx = H.right.mtx
            /\ Len(H.right.mtx) = Len(vv)
            /\ \A i \in 1 .. Len(vv) :
                /\ Len(H.right.mtx[i]) = MtxColumns(c, N)
                /\ \A t \in vv[i] : t.pw = "1"
                /\ \A j \in 1 .. MtxColumns(c, N) : H.right.mtx[i][j] = Partial(vv[i], j)
            /\ \A i \in (Len(vv) - Nb + 1) .. Len(vv) :
                \A j \in 1 .. MtxColumns(c, N) : H.right.mtx[i][j] = {}

\* Hessian_GN of the four-block class with two interior points and a boundary
\* point: the residual row of the second point has its three partial derivatives
C16_FourBlockHessian ==
    /\ Hessian_GNCalled
    /\ fcall.eqn = "Burgers"
    /\ Len(fcall.X_domain) = 2 /\ Len(fcall.X_boundary) = 1
    /\ fout.val.right.mtx[2][2] = {MonoTerm("-alpha", "", 0, <<4>>, "1")}
    /\ fout.val.right.mtx[2][4] = {MonoTerm("-alpha", "", 0, <<2>>, "1")}
    /\ fout.val.right.mtx[2][6] = {MonoTerm("nu", "", 0, <<>>, "1")}
    /\ fout.val.right.mtx[2][1] = {}
    /\ fout.val.right.mtx[9][1] = {}

\* ------------------------------------------------------- the retained vector
\* a solver method has returned
SolverDone ==
    /\ pc = "idle"
    /\ last.op \in {"GN_method", "GN_relaxed_method"}
    /\ last.result = "ok"

C18_CrossCovarianceLayout ==
    extend_solDone =>
        /\ N_test = Len(X_test)
        /\ Len(extended_sol.Theta_test) = N_test
        /\ \A t \in 1 .. N_test :
            /\ Len(extended_sol.Theta_test[t]) = Len(sol_vec.rows)
            /\ Len(extended_sol.Theta_test[t]) = Len(L.of)
        /\ RowsAgree
        /\ cls = "Burgers_new" =>
            \A t \in 1 .. N_test : \A j \in 1 .. 3 * N_domain + N_boundary :
                extended_sol.Theta_test[t][j] =
                    IF j <= N_domain
                    THEN FSub(KernelValue(kernel, kernel_parameter, "D_y1_kappa",
                                          X_test[t], X_domain[j]),
                              FMul(NuDefault,
                                   KernelValue(kernel, kernel_parameter, "DD_y2_kappa",
                                               X_test[t], X_domain[j])))
                    ELSE IF j <= 2 * N_domain
                    THEN KernelValue(kernel, kernel_parameter, "D_y2_kappa",
                                     X_test[t], X_domain[j - N_domain])
                    ELSE KernelValue(kernel, kernel_parameter, "kappa", X_test[t],
                                     Xdb(X_domain, X_boundary)[j - 2 * N_domain])
        /\ extended_sol.L = L /\ extended_sol.sol_vec = sol_vec
        /\ extended_sol.solves = <<"L", "transpose(L)">>

\* extend_sol of the Burgers class of src_new has returned for a query point that
\* is the boundary point: one row, four columns, the first two not equal
C18_BurgersExtended ==
    /\ extend_solDone
    /\ cls = "Burgers_new"
    /\ X_domain = <<1>> /\ X_boundary = <<2>> /\ X_test = <<2>>
    /\ Len(extended_sol.Theta_test) = 1
    /\ Len(extended_sol.Theta_test[1]) = 4
    /\ sol_vec.len = 4
    /\ extended_sol.Theta_test[1][1] # extended_sol.Theta_test[1][2]

\* ------------------------------------------------------------- the viscosity
\* C19: the viscosity used to build the Burgers Gram matrix and the Burgers
\* cross-covariance is the same value in both, and it is the viscosity nu the
\* Burgers object was constructed with, for every nu.
C19_ConfiguredViscosityUsed ==
    cls = "Burgers_new" =>
        /\ (last.op = "Gram_matrix" /\ last.result = "ok" /\ nugget_type = "none") =>
            Theta = BurgersTheta(X_domain, X_boundary, kernel, kernel_parameter, nu)
        /\ extend_solDone =>
            extended_sol.Theta_test =
                Theta_test_matrix(X_test, X_domain, X_boundary, "Burgers", kernel,
                                  kernel_parameter, nu)

\* a Burgers object constructed with nu = 0.2 whose Gram matrix is the one of
\* nu = 0.02
C19_DefaultViscosityUsed ==
    /\ cls = "Burgers_new"
    /\ nu = <<1, 5>>
    /\ last.op = "Gram_matrix" /\ last.result = "ok" /\ nugget_type = "none"
    /\ Theta = BurgersTheta(X_domain, X_boundary, kernel, kernel_parameter, NuDefault)
    /\ Theta # BurgersTheta(X_domain, X_boundary, kernel, kernel_parameter, nu)

\* --------------------------------------------------- Theta after Gram_matrix
Gram_matrixDone == last.op = "Gram_matrix" /\ last.result = "ok"

\* C20: after every call of Gram_matrix that returns normally, self.Theta is the
\* regularization of the matrix assembled in that same call, consistent with the
\* recorded kernel, kernel_parameter, nugget and nugget_type, for every value of
\* nugget_type passed (values outside adaptive / identity / none included); no
\* call leaves a Theta of an earlier call in place while it updates the recorded
\* parameters.
C20_ThetaOfThisCall ==
    Gram_matrixDone =>
        /\ "Theta" \in attrs
        /\ \E T \in {Assembled} :
            /\ \E nt \in PolicyTypes :
                Theta = Regularized(cls, T, N_domain, N_boundary, nugget, nt)
            /\ nugget_type \in PolicyTypes =>
                Theta = Regularized(cls, T, N_domain, N_boundary, nugget, nugget_type)

\* Gram_matrix has returned with a nugget_type outside the three policies: the
\* parameters of this call are recorded, and Theta is the matrix that an earlier
\* call regularized with another nugget
C20_StaleThetaKept ==
    /\ Gram_matrixDone
    /\ nugget_type \notin PolicyTypes
    /\ "Theta" \in attrs
    /\ nugget = 0
    /\ \E T \in {Assembled} :
        /\ Theta = Regularized(cls, T, N_domain, N_boundary, 1, "identity")
        /\ Theta # Regularized(cls, T, N_domain, N_boundary, 0, "identity")

\* --------------------------------------------------- the blocks written once
\* C21: in Gram_matrix_assembly (eqn 'Burgers') the block writes into Theta use
\* the row / column partition [0, N), [N, 2N), [2N, 3N + N_boundary); each of
\* the 9 blocks of this partition is written exactly once, the written index
\* ranges are pairwise disjoint and stay within the (3N + N_boundary)-square
\* matrix, and together they cover every entry, so that no entry keeps its
\* initial zero by omission.
C21_BlocksWrittenOnce ==
    BurgersAssembled =>
        LET N == Len(fcall.X_domain)
            Nb == Len(fcall.X_boundary)
            D == 3 * N + Nb
            W == BurgersWrites(N, Nb)
            atBlock(k, i, j) ==
                /\ W[k].r0 = BlockLo(i, N) /\ W[k].r1 = BlockHi(i, N, Nb)
                /\ W[k].c0 = BlockLo(j, N) /\ W[k].c1 = BlockHi(j, N, Nb)
        IN  /\ Len(W) = 9
            /\ Len(fout.val) = D
            /\ \A a \in 1 .. D : Len(fout.val[a]) = D
            /\ \A k \in 1 .. Len(W) :
                /\ \E i \in 0 .. 2 : \E j \in 0 .. 2 : atBlock(k, i, j)
                /\ 0 <= W[k].r0 /\ W[k].r0 < W[k].r1 /\ W[k].r1 <= D
                /\ 0 <= W[k].c0 /\ W[k].c0 < W[k].c1 /\ W[k].c1 <= D
            /\ \A i \in 0 .. 2 : \A j \in 0 .. 2 :
                Cardinality({k \in 1 .. Len(W) : atBlock(k, i, j)}) = 1
            /\ \A k \in 1 .. Len(W) : \A m \in 1 .. Len(W) :
                k # m =>
                    \/ W[k].r1 <= W[m].r0 \/ W[m].r1 <= W[k].r0
                    \/ W[k].c1 <= W[m].c0 \/ W[m].c1 <= W[k].c0
            /\ \A a \in 1 .. D : \A b \in 1 .. D :
                Cardinality({k \in 1 .. Len(W) : Covers(W[k], a, b)}) = 1

\* the Burgers matrix of one interior and one other boundary point is 4 x 4 and
\* the entries of the blocks written last, rows [2N, D) at columns [0, N) and
\* [N, 2N), hold kernel values and not the initial zero
C21_LastBlocksFilled ==
    /\ BurgersAssembled
    /\ fcall.X_domain = <<1>> /\ fcall.X_boundary = <<2>>
    /\ Len(fout.val) = 4
    /\ fout.val[4][2] # FInt(0)
    /\ fout.val[4][1] # FInt(0)
    /\ fout.val[3][3] # FInt(0)

====
